---- MODULE Spec2Model ----
(***************************************************************************)
(* Model of the Pure Data widget class "mousepad" (mousepad.c).            *)
(*                                                                         *)
(* One object of the class is modelled together with the part of the host  *)
(* it touches: the symbol table bindings (pd_bind / pd_unbind / s_thing),  *)
(* the rectangles it has drawn on its canvas, its init clock, the binbuf   *)
(* holding its creation text, and the messages it sends to its outlet and  *)
(* to named receivers.  Every handler of the class is one action; a        *)
(* handler runs to completion before the next one starts.                  *)
(*                                                                         *)
(* Symbols are strings, except colour symbols, which are sequences of      *)
(* ASCII codes because the colour codec works on single characters.        *)
(* Floats are integers; the float arguments of "motion" are counted in     *)
(* halves so that the truncation of (t_int)dx is visible.                  *)
(***************************************************************************)
EXTENDS Integers, Sequences, FiniteSets, TLC

VARIABLES
    mp,      \* the t_mousepad struct
    host,    \* host state the object acts on: bindings, canvas, clock, binbuf
    log,     \* messages sent by the handler that ran last, in order
    op,      \* the handler that ran last, with the arguments of a mouse or name handler
    named,   \* the names that messages carried while the init clock was pending
    cIn,     \* colour codec: integer colour under conversion
    cHex,    \* colour codec: colour string under conversion
    cInt,    \* colour codec: integer parsed from cHex
    cPc      \* colour codec: position in the conversion

vars == <<mp, host, log, op, named, cIn, cHex, cInt, cPc>>

(***************************************************************************)
(* Program constants                                                       *)
(***************************************************************************)
DEFCOLOR == 14540253      \* 0xDDDDDD
DEFSIZE  == 64
DEFZOOM  == 1
IOHEIGHT == 3
IOWIDTH  == 7
BASE     == 1
INLET    == 2
OUTLET   == 4

symEmpty  == "empty"
s_        == ""
symSize   == "size"
symColor  == "color"
symPos    == "pos"
symZoom   == "zoom"
symNames  == "names"
symButton == "button"
symDrag   == "drag"
symHover  == "hover"
symDeltas == "deltas"

(***************************************************************************)
(* C arithmetic                                                            *)
(***************************************************************************)
\* C integer division truncates toward zero
CDiv(a, b) ==
    IF a >= 0 THEN a \div b ELSE -((-a) \div b)

\* the conversion rounding down instead of toward zero
FloatToInt_floor(h) == h \div 2

\* (t_int)f for a float counted in halves
FloatToInt(h) == CDiv(h, 2)

RECURSIVE BitAndN(_, _, _)
\* a & b on the low n bits of two non-negative integers
BitAndN(a, b, n) ==
    IF n = 0 THEN 0
    ELSE ((a % 2) * (b % 2)) + 2 * BitAndN(a \div 2, b \div 2, n - 1)

BitAnd(a, b) == BitAndN(a, b, 24)

RECURSIVE Pow2(_)
Pow2(n) == IF n = 0 THEN 1 ELSE 2 * Pow2(n - 1)

ShiftR(a, n) == a \div Pow2(n)
ShiftL(a, n) == a * Pow2(n)

\* character k (counted from 0) of a C string: the terminating NUL at its end
CharAt(s, k) == IF k < Len(s) THEN s[k + 1] ELSE 0

(***************************************************************************)
(* Colour codec                                                            *)
(***************************************************************************)
RECURSIVE int2hexcolor_loop_lower(_, _, _, _, _)
\* int2hexcolor writing the digits above 9 as a till f
int2hexcolor_loop_lower(intcolor, hexcolor, nibblemask, i, j) ==
    IF i < 7
    THEN LET nibble == ShiftR(BitAnd(intcolor, nibblemask), 4 * j)
             ch     == IF nibble < 10 THEN nibble + 48 ELSE nibble + 87
         IN  int2hexcolor_loop_lower(intcolor, Append(hexcolor, ch),
                                     ShiftR(nibblemask, 4), i + 1, j - 1)
    ELSE hexcolor

RECURSIVE int2hexcolor_loop(_, _, _, _, _)
int2hexcolor_loop(intcolor, hexcolor, nibblemask, i, j) ==
    IF i < 7
    THEN LET nibble == ShiftR(BitAnd(intcolor, nibblemask), 4 * j)
             ch     == IF nibble < 10 THEN nibble + 48 ELSE nibble + 55
         IN  int2hexcolor_loop(intcolor, Append(hexcolor, ch),
                               ShiftR(nibblemask, 4), i + 1, j - 1)
    ELSE hexcolor

int2hexcolor(intcolor) ==
    int2hexcolor_loop(intcolor, <<35>>, 15728640, 1, 5)

RECURSIVE hexcolor2int_scan(_, _, _)
\* first loop: returns <<i, intbuf>> where i is the index at which it stopped
hexcolor2int_scan(hexcolor, intbuf, i) ==
    IF i < 6
    THEN LET h == CharAt(hexcolor, i + 1)
         IN  IF h = 0 THEN <<i, intbuf>>
             ELSE LET d == IF (h >= 48) /\ (h <= 57) THEN h - 48
                           ELSE IF (h >= 65) /\ (h <= 70) THEN h - 55
                           ELSE IF (h >= 97) /\ (h <= 102) THEN h - 87
                           ELSE intbuf[i + 1]
                  IN  hexcolor2int_scan(hexcolor,
                                        [intbuf EXCEPT ![i + 1] = d], i + 1)
    ELSE <<i, intbuf>>

\* the up-sampling with its assignments in ascending order of the index
hexcolor2int_upsample_ascending(b) ==
    LET b1 == [b  EXCEPT ![2] = b[1]]
        b2 == [b1 EXCEPT ![3] = b1[2], ![4] = b1[2]]
        b3 == [b2 EXCEPT ![5] = b2[3], ![6] = b2[3]]
    IN  b3

\* 'up-sample-and-hold' of three digits to six, in the order of the assignments
hexcolor2int_upsample(b) ==
    LET b1 == [b  EXCEPT ![5] = b[3], ![6] = b[3]]
        b2 == [b1 EXCEPT ![3] = b1[2], ![4] = b1[2]]
        b3 == [b2 EXCEPT ![2] = b2[1]]
    IN  b3

RECURSIVE hexcolor2int_sum(_, _, _)
hexcolor2int_sum(intbuf, intcolor, i) ==
    IF i < 6
    THEN hexcolor2int_sum(intbuf, ShiftL(intcolor, 4) + intbuf[i + 1], i + 1)
    ELSE intcolor

hexcolor2int(hexcolor) ==
    LET r      == hexcolor2int_scan(hexcolor, <<0, 0, 0, 0, 0, 0>>, 0)
        intbuf == IF r[1] = 3 THEN hexcolor2int_upsample(r[2]) ELSE r[2]
    IN  hexcolor2int_sum(intbuf, 0, 0)

(***************************************************************************)
(* Atoms, symbols and the host's symbol table                              *)
(***************************************************************************)
Float(n)  == [t |-> "f", v |-> n]
Symbol(n) == [t |-> "s", v |-> n]

IS_A_FLOAT(argv, index)  == argv[index + 1].t = "f"
IS_A_SYMBOL(argv, index) == argv[index + 1].t = "s"

\* atom_getsymbolarg: the symbol at index which, &s_ when there is none
atom_getsymbolarg(which, argv) ==
    IF which < Len(argv) /\ IS_A_SYMBOL(argv, which)
    THEN argv[which + 1].v ELSE s_

\* atom_string: the text of an atom (names of the model are shorter than the
\* 80 byte buffer it is given)
atom_string(a) == IF a.t = "f" THEN ToString(a.v) ELSE a.v

\* arguments of the canvas the object lives in: $1 is "empty", $2 is "bar"
canvas_realizedollar(name) ==
    IF name = "$1" THEN "empty"
    ELSE IF name = "$2" THEN "bar"
    ELSE name

sendname_fixed    == "from-mousepad-0X1"
receivename_fixed == "to-mousepad-0X1"

\* names a message or a creation argument can carry
Names == {"", "empty", "foo", "$1", "$2"}

\* every symbol something can be bound to
BoundNames == {"empty", "foo", "bar", sendname_fixed, receivename_fixed}

pd_bind(w, name) ==
    [w EXCEPT !.host.bound[name] = @ + 1,
              !.host.bindlog = Append(@, <<"bind", name>>)]

\* pd_unbind of a name the object is not bound to is reported by the host
\* ("couldn't unbind") and changes nothing
pd_unbind(w, name) ==
    IF w.host.bound[name] > 0
    THEN [w EXCEPT !.host.bound[name] = @ - 1,
                   !.host.bindlog = Append(@, <<"unbind", name>>)]
    ELSE [w EXCEPT !.host.unbind_err = TRUE,
                   !.host.bindlog = Append(@, <<"unbind", name>>)]

\* name->s_thing: something is bound to the name
s_thing(w, name) ==
    (w.host.bound[name] > 0) \/ (name \in w.host.others)

outlet_anything(w, sel, argc) ==
    [w EXCEPT !.log = Append(@, [chan |-> "outlet", name |-> "",
                                 sel |-> sel, argv |-> SubSeq(w.mp.out, 1, argc)])]

typedmess(w, name, sel, argc) ==
    [w EXCEPT !.log = Append(@, [chan |-> "send", name |-> name,
                                 sel |-> sel, argv |-> SubSeq(w.mp.out, 1, argc)])]

SETOUT(w, i, a) == [w EXCEPT !.mp.out[i + 1] = a]

text_xpix(w) == w.mp.te_xpix
text_ypix(w) == w.mp.te_ypix

glist_isvisible(w) == w.host.visible

(***************************************************************************)
(* Drawing: the canvas is the list of the items the object created on it   *)
(***************************************************************************)
RECURSIVE SelectItems(_, _)
\* the items of a canvas whose tag is not the given one, in order
SelectItems(items, tag) ==
    IF items = <<>> THEN <<>>
    ELSE IF Head(items).tag = tag THEN SelectItems(Tail(items), tag)
    ELSE <<Head(items)>> \o SelectItems(Tail(items), tag)

\* draw_rect that creates items but does not move the items there are
draw_rect_create_only(w, part, pix, isnew) ==
    IF isnew
    THEN [w EXCEPT !.host.canvas =
              Append(@, [tag |-> part, pix |-> pix, fill |-> -1])]
    ELSE w

draw_rect(w, part, pix, isnew) ==
    IF isnew
    THEN [w EXCEPT !.host.canvas =
              Append(@, [tag |-> part, pix |-> pix, fill |-> -1])]
    ELSE [w EXCEPT !.host.canvas =
              [k \in DOMAIN @ |-> IF @[k].tag = part
                                  THEN [@[k] EXCEPT !.pix = pix] ELSE @[k]]]

draw_fillcolor(w, part, color) ==
    [w EXCEPT !.host.canvas =
         [k \in DOMAIN @ |-> IF @[k].tag = part
                             THEN [@[k] EXCEPT !.fill = color] ELSE @[k]]]

draw_erase(w, part) ==
    [w EXCEPT !.host.canvas = SelectItems(@, part)]

\* rects is a set of parts; the empty set stands for the argument 0
mousepad_draw(w, isnew, rects) ==
    IF (~isnew) /\ (~glist_isvisible(w)) THEN w
    ELSE
    LET zoom     == w.mp.zoomfactor
        xpos     == text_xpix(w)
        ypos     == text_ypix(w)
        width    == w.mp.pixw
        height   == w.mp.pixh
        iowidth  == IOWIDTH * zoom
        ioheight == IOHEIGHT * zoom
        todo     == IF rects = {}
                    THEN {BASE}
                         \cup (IF w.mp.sendname = symEmpty THEN {INLET} ELSE {})
                         \cup (IF w.mp.receivename = symEmpty THEN {OUTLET} ELSE {})
                    ELSE rects
        w1 == IF BASE \in todo
              THEN draw_rect(w, BASE,
                             <<xpos, ypos, xpos + width, ypos + height>>, isnew)
              ELSE w
        w2 == IF INLET \in todo
              THEN draw_rect(w1, INLET,
                             <<xpos, ypos, xpos + iowidth, ypos + ioheight>>, isnew)
              ELSE w1
        w3 == IF OUTLET \in todo
              THEN draw_rect(w2, OUTLET,
                             <<xpos, ypos + height - ioheight,
                               xpos + iowidth, ypos + height>>, isnew)
              ELSE w2
    IN  IF isnew THEN draw_fillcolor(w3, BASE, w.mp.intcolor) ELSE w3

mousepad_change_io(w, change, iolet) ==
    IF ~glist_isvisible(w) THEN w
    ELSE IF change = 1 THEN mousepad_draw(w, TRUE, {iolet})
    ELSE IF change = -1 THEN draw_erase(w, iolet)
    ELSE w

mousepad_vis(w, vis) ==
    IF vis THEN mousepad_draw(w, TRUE, {})
    ELSE LET w1 == draw_erase(w, BASE)
             w2 == IF w.mp.sendname = symEmpty THEN draw_erase(w1, INLET) ELSE w1
             w3 == IF w.mp.receivename = symEmpty THEN draw_erase(w2, OUTLET) ELSE w2
         IN  w3

mousepad_getrect(w) ==
    <<text_xpix(w), text_ypix(w),
      text_xpix(w) + w.mp.pixw, text_ypix(w) + w.mp.pixh>>

(***************************************************************************)
(* Callbacks                                                               *)
(***************************************************************************)
\* the atoms mousepad_save adds after "#X obj xpos ypos mousepad"
mousepad_save(w) ==
    <<Float(w.mp.width), Float(w.mp.height),
      Symbol(w.mp.sendname_unexpanded), Symbol(w.mp.receivename_unexpanded),
      Symbol(int2hexcolor(w.mp.intcolor))>>

\* mousepad_emit without the test of sendable
mousepad_emit_unchecked(w, sendable, sel, argc) ==
    LET w1 == outlet_anything(w, sel, argc)
    IN  IF s_thing(w1, w1.mp.sendname)
        THEN typedmess(w1, w1.mp.sendname, sel, argc)
        ELSE w1

\* send the first argc atoms of out to the outlet and, if sendable, to sendname
mousepad_emit(w, sendable, sel, argc) ==
    LET w1 == outlet_anything(w, sel, argc)
    IN  IF sendable /\ s_thing(w1, w1.mp.sendname)
        THEN typedmess(w1, w1.mp.sendname, sel, argc)
        ELSE w1

\* dx and dy are floats counted in halves
mousepad_motion(w, dx, dy) ==
    LET deltax == FloatToInt(dx)
        deltay == FloatToInt(dy)
    IN  IF deltax = 0 /\ deltay = 0 THEN w
        ELSE
        LET sendable == (w.mp.sendname # symEmpty)
            w1 == [w EXCEPT !.mp.xval = @ + deltax, !.mp.yval = @ + deltay]
            w2 == SETOUT(w1, 0, Float(CDiv(w1.mp.xval, w1.mp.zoomfactor)))
            w3 == SETOUT(w2, 1, Float(CDiv(w2.mp.yval, w2.mp.zoomfactor)))
            w4 == mousepad_emit(w3, sendable, symDrag, 2)
            w5 == SETOUT(w4, 0, Float(CDiv(deltax, w4.mp.zoomfactor)))
            w6 == SETOUT(w5, 1, Float(CDiv(deltay, w5.mp.zoomfactor)))
        IN  mousepad_emit(w6, sendable, symDeltas, 2)

\* mousepad_click that does not store the button state it reported
mousepad_click_unstored(w, xpix, ypix, shift, alt, buttonstate) ==
    LET sendable == (w.mp.sendname # symEmpty)
        xpos     == text_xpix(w)
        ypos     == text_ypix(w)
        w1 == IF buttonstate # w.mp.buttonstate
              THEN LET b1 == SETOUT(w, 0, Float(buttonstate))
                       b2 == SETOUT(b1, 1, Float(shift))
                       b3 == SETOUT(b2, 2, Float(IF alt # 0 THEN 1 ELSE 0))
                       b4 == mousepad_emit(b3, sendable, symButton, 3)
                   IN  b4
              ELSE w
        w2 == [w1 EXCEPT !.mp.xval = xpix - xpos, !.mp.yval = ypix - ypos]
        w3 == SETOUT(w2, 0, Float(CDiv(w2.mp.xval, w2.mp.zoomfactor)))
        w4 == SETOUT(w3, 1, Float(CDiv(w3.mp.yval, w3.mp.zoomfactor)))
    IN  IF buttonstate # 0
        THEN mousepad_emit([w4 EXCEPT !.host.grab = TRUE], sendable, symDrag, 2)
        ELSE mousepad_emit(w4, sendable, symHover, 2)

\* mousepad_click taking the canvas position for the position in the object
mousepad_click_absolute(w, xpix, ypix, shift, alt, buttonstate) ==
    LET sendable == (w.mp.sendname # symEmpty)
        xpos     == text_xpix(w)
        ypos     == text_ypix(w)
        w1 == IF buttonstate # w.mp.buttonstate
              THEN LET b1 == SETOUT(w, 0, Float(buttonstate))
                       b2 == SETOUT(b1, 1, Float(shift))
                       b3 == SETOUT(b2, 2, Float(IF alt # 0 THEN 1 ELSE 0))
                       b4 == mousepad_emit(b3, sendable, symButton, 3)
                   IN  [b4 EXCEPT !.mp.buttonstate = buttonstate]
              ELSE w
        w2 == [w1 EXCEPT !.mp.xval = xpix, !.mp.yval = ypix]
        w3 == SETOUT(w2, 0, Float(CDiv(w2.mp.xval, w2.mp.zoomfactor)))
        w4 == SETOUT(w3, 1, Float(CDiv(w3.mp.yval, w3.mp.zoomfactor)))
    IN  IF buttonstate # 0
        THEN mousepad_emit([w4 EXCEPT !.host.grab = TRUE], sendable, symDrag, 2)
        ELSE mousepad_emit(w4, sendable, symHover, 2)

mousepad_click(w, xpix, ypix, shift, alt, buttonstate) ==
    LET sendable == (w.mp.sendname # symEmpty)
        xpos     == text_xpix(w)
        ypos     == text_ypix(w)
        w1 == IF buttonstate # w.mp.buttonstate
              THEN LET b1 == SETOUT(w, 0, Float(buttonstate))
                       b2 == SETOUT(b1, 1, Float(shift))
                       b3 == SETOUT(b2, 2, Float(IF alt # 0 THEN 1 ELSE 0))
                       b4 == mousepad_emit(b3, sendable, symButton, 3)
                   IN  [b4 EXCEPT !.mp.buttonstate = buttonstate]
              ELSE w
        w2 == [w1 EXCEPT !.mp.xval = xpix - xpos, !.mp.yval = ypix - ypos]
        w3 == SETOUT(w2, 0, Float(CDiv(w2.mp.xval, w2.mp.zoomfactor)))
        w4 == SETOUT(w3, 1, Float(CDiv(w3.mp.yval, w3.mp.zoomfactor)))
    IN  IF buttonstate # 0
        THEN mousepad_emit([w4 EXCEPT !.host.grab = TRUE], sendable, symDrag, 2)
        ELSE mousepad_emit(w4, sendable, symHover, 2)

\* send the first argc atoms of out to sendname_fixed if something listens
\* mousepad_emit_fixed that sends nothing
mousepad_emit_fixed_never(w, sel, argc) ==
    w

mousepad_emit_fixed(w, sel, argc) ==
    IF s_thing(w, sendname_fixed)
    THEN typedmess(w, sendname_fixed, sel, argc)
    ELSE w

mousepad_zoom(w, zoomfactor) ==
    LET w1 == [w EXCEPT !.mp.pixw = w.mp.width * zoomfactor,
                        !.mp.pixh = w.mp.height * zoomfactor,
                        !.mp.zoomfactor = zoomfactor]
        sendable == (w1.mp.sendname # symEmpty)
        w2 == SETOUT(w1, 0, Float(zoomfactor))
        w3 == mousepad_emit(w2, sendable, symZoom, 1)
    IN  mousepad_emit_fixed(w3, symZoom, 1)

mousepad_get(w, selector) ==
    LET sendable == (w.mp.sendname # symEmpty)
        w1 == IF selector = symSize
              THEN SETOUT(SETOUT(w, 0, Float(w.mp.width)), 1, Float(w.mp.height))
              ELSE IF selector = symNames
              THEN SETOUT(SETOUT(w, 0, Symbol(w.mp.sendname_unexpanded)),
                          1, Symbol(w.mp.receivename_unexpanded))
              ELSE IF selector = symColor
              THEN SETOUT(w, 0, Float(w.mp.intcolor))
              ELSE IF selector = symPos
              THEN SETOUT(SETOUT(w, 0, Float(CDiv(text_xpix(w), w.mp.zoomfactor))),
                          1, Float(CDiv(text_ypix(w), w.mp.zoomfactor)))
              ELSE IF selector = symZoom
              THEN SETOUT(w, 0, Float(w.mp.zoomfactor))
              ELSE w
        argc == IF selector \in {symSize, symNames, symPos} THEN 2
                ELSE IF selector \in {symColor, symZoom} THEN 1
                ELSE 0
    IN  IF argc # 0
        THEN mousepad_emit_fixed(mousepad_emit(w1, sendable, selector, argc),
                                 selector, argc)
        ELSE w1

mousepad_displace(w, dx, dy) ==
    mousepad_draw([w EXCEPT !.mp.te_xpix = @ + dx, !.mp.te_ypix = @ + dy],
                  FALSE, {})

mousepad_delta(w, dx, dy) ==
    mousepad_draw([w EXCEPT !.mp.te_xpix = @ + dx * w.mp.zoomfactor,
                            !.mp.te_ypix = @ + dy * w.mp.zoomfactor],
                  FALSE, {})

mousepad_pos(w, xpos, ypos) ==
    mousepad_draw([w EXCEPT !.mp.te_xpix = xpos * w.mp.zoomfactor,
                            !.mp.te_ypix = ypos * w.mp.zoomfactor],
                  FALSE, {})

\* a colour symbol carries its name as a sequence of character codes
mousepad_color(w, argv) ==
    IF Len(argv) = 0 THEN w
    ELSE
    LET intcolor ==
            IF IS_A_FLOAT(argv, 0) THEN BitAnd(argv[1].v, 16777215)
            ELSE IF IS_A_SYMBOL(argv, 0) /\ CharAt(argv[1].v, 0) = 35
            THEN hexcolor2int(argv[1].v)
            ELSE DEFCOLOR
        w1 == IF glist_isvisible(w) THEN draw_fillcolor(w, BASE, intcolor) ELSE w
    IN  [w1 EXCEPT !.mp.intcolor = intcolor]

\* mousepad_size without the lower limit of 1
mousepad_size_unclamped(w, argv) ==
    LET argc   == Len(argv)
        width  == IF argc >= 1 /\ IS_A_FLOAT(argv, 0) THEN argv[1].v ELSE DEFSIZE
        height == IF argc >= 1
                  THEN IF argc = 1 THEN width
                       ELSE IF IS_A_FLOAT(argv, 1) THEN argv[2].v ELSE DEFSIZE
                  ELSE DEFSIZE
    IN  [w EXCEPT !.mp.width = width, !.mp.height = height,
                  !.mp.pixw = width * w.mp.zoomfactor,
                  !.mp.pixh = height * w.mp.zoomfactor]

mousepad_size(w, argv) ==
    LET argc   == Len(argv)
        width0 == IF argc >= 1 /\ IS_A_FLOAT(argv, 0) THEN argv[1].v ELSE DEFSIZE
        height0 == IF argc >= 1
                   THEN IF argc = 1 THEN width0
                        ELSE IF IS_A_FLOAT(argv, 1) THEN argv[2].v ELSE DEFSIZE
                   ELSE DEFSIZE
        width  == IF width0 < 1 THEN 1 ELSE width0
        height == IF height0 < 1 THEN 1 ELSE height0
    IN  [w EXCEPT !.mp.width = width, !.mp.height = height,
                  !.mp.pixw = width * w.mp.zoomfactor,
                  !.mp.pixh = height * w.mp.zoomfactor]

mousepad_resize(w, argv) ==
    mousepad_draw(mousepad_size(w, argv), FALSE, {})

(***************************************************************************)
(* Send and receive names                                                  *)
(***************************************************************************)
mousepad_send(w, sendname0) ==
    LET was_sendable == IF w.mp.sendname # symEmpty THEN 1 ELSE 0
        sendname     == IF sendname0 = s_ THEN symEmpty ELSE sendname0
        is_sendable  == IF sendname # symEmpty THEN 1 ELSE 0
        w1 == [w EXCEPT !.mp.sendname_unexpanded = sendname,
                        !.mp.sendname = canvas_realizedollar(sendname)]
        change == was_sendable - is_sendable
    IN  IF change # 0 THEN mousepad_change_io(w1, change, INLET) ELSE w1

\* mousepad_receive deciding receivability on the unexpanded name
mousepad_receive_unexpanded_test(w, receivename0) ==
    LET was_receivable == IF w.mp.receivename # symEmpty THEN 1 ELSE 0
        w1 == IF was_receivable = 1 THEN pd_unbind(w, w.mp.receivename) ELSE w
        receivename1  == IF receivename0 = s_ THEN symEmpty ELSE receivename0
        w2 == [w1 EXCEPT !.mp.receivename_unexpanded = receivename1]
        receivename   == canvas_realizedollar(receivename1)
        is_receivable == IF receivename1 # symEmpty THEN 1 ELSE 0
        w3 == IF is_receivable = 1 THEN pd_bind(w2, receivename) ELSE w2
        w4 == [w3 EXCEPT !.mp.receivename = receivename]
        change == was_receivable - is_receivable
    IN  IF change # 0 THEN mousepad_change_io(w4, change, OUTLET) ELSE w4

mousepad_receive(w, receivename0) ==
    LET was_receivable == IF w.mp.receivename # symEmpty THEN 1 ELSE 0
        w1 == IF was_receivable = 1 THEN pd_unbind(w, w.mp.receivename) ELSE w
        receivename1  == IF receivename0 = s_ THEN symEmpty ELSE receivename0
        w2 == [w1 EXCEPT !.mp.receivename_unexpanded = receivename1]
        receivename   == canvas_realizedollar(receivename1)
        is_receivable == IF receivename # symEmpty THEN 1 ELSE 0
        w3 == IF is_receivable = 1 THEN pd_bind(w2, receivename) ELSE w2
        w4 == [w3 EXCEPT !.mp.receivename = receivename]
        change == was_receivable - is_receivable
    IN  IF change # 0 THEN mousepad_change_io(w4, change, OUTLET) ELSE w4

(***************************************************************************)
(* Creation, init, deletion                                                *)
(***************************************************************************)
\* binbuf_getnatom and binbufvec + k of the object's creation text
binbuf_getnatom(w) == Len(w.host.binbuf)
binbufvec(w, k)    == w.host.binbuf[k + 1]

\* mousepad_init_unexpanded counting the binbuf atoms from the first argument
mousepad_init_unexpanded_shifted(w) ==
    IF binbuf_getnatom(w) > 4
    THEN LET w1 == IF w.mp.sendname_unexpanded = symEmpty
                   THEN [w EXCEPT !.mp.sendname_unexpanded =
                                      atom_string(binbufvec(w, 2))]
                   ELSE w
             w2 == IF w1.mp.receivename_unexpanded = symEmpty
                   THEN [w1 EXCEPT !.mp.receivename_unexpanded =
                                       atom_string(binbufvec(w1, 3))]
                   ELSE w1
         IN  w2
    ELSE w

mousepad_init_unexpanded(w) ==
    IF binbuf_getnatom(w) > 4
    THEN LET w1 == IF w.mp.sendname_unexpanded = symEmpty
                   THEN [w EXCEPT !.mp.sendname_unexpanded =
                                      atom_string(binbufvec(w, 3))]
                   ELSE w
             w2 == IF w1.mp.receivename_unexpanded = symEmpty
                   THEN [w1 EXCEPT !.mp.receivename_unexpanded =
                                       atom_string(binbufvec(w1, 4))]
                   ELSE w1
         IN  w2
    ELSE w

mousepad_fixed_sendreceive(w) ==
    pd_bind(w, receivename_fixed)

\* the memory pd_new returns and the host state around it: nothing bound by
\* this object, nothing drawn, the creation text in the binbuf
pd_new(binbuf) ==
    [mp   |-> [width |-> 0, height |-> 0, xval |-> 0, yval |-> 0,
               pixw |-> 0, pixh |-> 0, zoomfactor |-> 0, buttonstate |-> 0,
               intcolor |-> 0, sendname |-> s_, receivename |-> s_,
               sendname_unexpanded |-> s_, receivename_unexpanded |-> s_,
               te_xpix |-> 0, te_ypix |-> 0,
               out |-> <<Float(0), Float(0), Float(0)>>],
     host |-> [bound |-> [n \in BoundNames |-> 0], others |-> {},
               unbind_err |-> FALSE, bindlog |-> <<>>, visible |-> FALSE, canvas |-> <<>>,
               grab |-> FALSE, clock |-> FALSE, binbuf |-> binbuf,
               freed |-> FALSE, stale_call |-> FALSE, saved |-> <<>>],
     log  |-> <<>>]

\* the creation arguments are the atoms of the creation text after the class
\* name, with the dollar arguments of the names expanded by the host
CreationArgs(binbuf) ==
    [k \in 1..(Len(binbuf) - 1) |->
        IF k \in {3, 4} /\ binbuf[k + 1].t = "s"
        THEN Symbol(canvas_realizedollar(binbuf[k + 1].v))
        ELSE binbuf[k + 1]]

mousepad_new(binbuf) ==
    LET argv == CreationArgs(binbuf)
        argc == Len(argv)
        w0 == pd_new(binbuf)
        w1 == [w0 EXCEPT !.mp.intcolor = DEFCOLOR, !.mp.zoomfactor = DEFZOOM,
                         !.mp.xval = 0, !.mp.yval = 0, !.mp.buttonstate = 0,
                         !.mp.sendname = symEmpty, !.mp.receivename = symEmpty]
        w2 == mousepad_size(w1, argv)
        w3 == mousepad_send(w2, atom_getsymbolarg(2, argv))
        w4 == mousepad_receive(w3, atom_getsymbolarg(3, argv))
        w5 == IF argc >= 5 THEN mousepad_color(w4, <<argv[5]>>) ELSE w4
        w6 == [w5 EXCEPT !.mp.sendname_unexpanded = symEmpty,
                         !.mp.receivename_unexpanded = symEmpty]
        w7 == [w6 EXCEPT !.host.clock = TRUE]
    IN  mousepad_fixed_sendreceive(w7)

\* mousepad_free unbinding the fixed name only
mousepad_free_fixed_only(w) ==
    [pd_unbind(w, receivename_fixed) EXCEPT !.host.freed = TRUE]

\* the init clock is neither unset nor freed here
mousepad_free(w) ==
    LET w1 == pd_unbind(w, receivename_fixed)
        w2 == IF w1.mp.receivename # symEmpty
              THEN pd_unbind(w1, w1.mp.receivename) ELSE w1
    IN  [w2 EXCEPT !.host.freed = TRUE]

(***************************************************************************)
(* Bounds and inputs                                                       *)
(***************************************************************************)
MaxPix   == 1      \* mouse positions of a click are 0..MaxPix in x and y
MaxVal   == 2      \* motion is followed while |xval| and |yval| <= MaxVal
MaxArg   == 2      \* the size arguments are 0 and MaxArg

Pix      == 0..MaxPix
Halves   == {-2, -1, 0, 3}           \* motion deltas -1, -0.5, 0, 1.5
Zooms    == {1, 2}
Mods     == {<<1, 2>>}               \* shift and alt of a click
ArgNames == Names \ {s_}             \* a creation text holds no empty symbol
RecvNames == Names \cup {receivename_fixed}
Listened == {"empty", "bar"}         \* "foo" has no other receiver
DialogListened == {sendname_fixed, "bar"}
Selectors == {symSize, symNames, symColor, symPos, symZoom, symDrag}

\* "#1AF", "#1a2B3c", "1AF"
ColorSymbols ==
    {<<35, 49, 65, 70>>, <<35, 49, 97, 50, 66, 51, 99>>, <<49, 65, 70>>}

ColorArgs == {Symbol(c) : c \in ColorSymbols} \cup {Float(-1)}

SizeArgs == {Float(0), Float(MaxArg)}
PosArgs  == {0, 1}                   \* arguments of "pos"

\* creation texts "mousepad [width [height [send [receive [color]]]]]"
TextsOver(sizes, names, colors) ==
    LET cls == <<Symbol("mousepad")>>
        T1 == {cls \o <<a>> : a \in sizes}
        T2 == {t \o <<b>> : t \in T1, b \in sizes}
        T3 == {t \o <<Symbol(n)>> : t \in T2, n \in names}
        T4 == {t \o <<Symbol(n)>> : t \in T3, n \in names}
        T5 == {t \o <<c>> : t \in T4, c \in colors}
    IN  {cls} \cup T1 \cup T2 \cup T3 \cup T4 \cup T5

(***************************************************************************)
(* The state machine                                                       *)
(***************************************************************************)
World == [mp |-> mp, host |-> host, log |-> log]

\* a handler starts with nothing sent, grabbed, bound or saved by it
Begin ==
    [World EXCEPT !.log = <<>>, !.host.grab = FALSE, !.host.saved = <<>>,
                  !.host.bindlog = <<>>]

Op(name, args) == [name |-> name, args |-> args]

CodecIdle ==
    /\ cIn = -1 /\ cHex = <<>> /\ cInt = -1 /\ cPc = "idle"

NoneNamed == [send |-> <<>>, receive |-> <<>>]

\* the value a "send" or "receive" message carried before the clock fired,
\* kept until the handler after the clock's callback
NamedAfter(o) ==
    IF o.name = "init" THEN named
    ELSE IF ~host.clock THEN NoneNamed
    ELSE IF o.name = "send" THEN [named EXCEPT !.send = <<o.args[1]>>]
    ELSE IF o.name = "receive" THEN [named EXCEPT !.receive = <<o.args[1]>>]
    ELSE named

Commit(w, o) ==
    /\ mp' = w.mp
    /\ host' = w.host
    /\ log' = w.log
    /\ op' = o
    /\ named' = NamedAfter(o)
    /\ UNCHANGED <<cIn, cHex, cInt, cPc>>

InitOver(texts) ==
    /\ \E b \in texts :
         LET w == mousepad_new(b)
         IN  mp = w.mp /\ host = w.host /\ log = w.log
    /\ op = Op("new", <<>>)
    /\ named = NoneNamed
    /\ CodecIdle

Alive == ~host.freed

\* the host calls the click function for a pointer inside the rectangle of
\* the object, here up to MaxPix right of and below its corner
Click ==
    /\ Alive
    /\ \E x \in Pix, y \in Pix, m \in Mods, buttonstate \in {0, 1} :
         LET xpix == text_xpix(World) + x
             ypix == text_ypix(World) + y
         IN  Commit(mousepad_click(Begin, xpix, ypix, m[1], m[2], buttonstate),
                    Op("click", <<xpix, ypix, m[1], m[2], buttonstate>>))

Motion ==
    /\ Alive
    /\ \E dx \in Halves, dy \in Halves :
         /\ mp.xval + FloatToInt(dx) \in -MaxVal..MaxVal
         /\ mp.yval + FloatToInt(dy) \in -MaxVal..MaxVal
         /\ Commit(mousepad_motion(Begin, dx, dy), Op("motion", <<dx, dy>>))

Zoom ==
    /\ Alive
    /\ \E z \in Zooms :
         Commit(mousepad_zoom(Begin, z), Op("zoom", <<z>>))

Get ==
    /\ Alive
    /\ \E sel \in Selectors :
         Commit(mousepad_get(Begin, sel), Op("get", <<sel>>))

Send ==
    /\ Alive
    /\ \E n \in Names :
         Commit(mousepad_send(Begin, n), Op("send", <<n>>))

Receive ==
    /\ Alive
    /\ \E n \in RecvNames :
         Commit(mousepad_receive(Begin, n), Op("receive", <<n>>))

\* another object binds itself to a name or unbinds itself from it
Listen ==
    \E n \in Listened :
        Commit([Begin EXCEPT !.host.others =
                    IF n \in @ THEN @ \ {n} ELSE @ \cup {n}],
               Op("listen", <<n>>))

\* the properties dialog, or a receiver named "bar", appears or goes away
ListenDialog ==
    \E n \in DialogListened :
        Commit([Begin EXCEPT !.host.others =
                    IF n \in @ THEN @ \ {n} ELSE @ \cup {n}],
               Op("listen", <<n>>))

Save ==
    /\ Alive
    /\ Commit([Begin EXCEPT !.host.saved = mousepad_save(Begin)],
              Op("save", <<>>))

\* the init clock fires; on an object that was freed the callback works on
\* released memory, and what it finds and writes there is not determined
InitClock ==
    /\ host.clock
    /\ IF Alive
       THEN Commit(mousepad_init_unexpanded([Begin EXCEPT !.host.clock = FALSE]),
                   Op("init", <<>>))
       ELSE \E w \in {[Begin EXCEPT !.host.clock = FALSE],
                      mousepad_init_unexpanded([Begin EXCEPT !.host.clock = FALSE])} :
               Commit([w EXCEPT !.host.stale_call = TRUE], Op("init", <<>>))

Free ==
    /\ Alive
    /\ Commit(mousepad_free(Begin), Op("free", <<>>))

Resize ==
    /\ Alive
    /\ \E argv \in {<<>>} \cup {<<a>> : a \in SizeArgs \cup {Symbol("foo")}}
                 \cup {<<a, b>> : a \in SizeArgs, b \in SizeArgs \cup {Symbol("foo")}} :
         Commit(mousepad_resize(Begin, argv), Op("size", <<>>))

PosMsg ==
    /\ Alive
    /\ \E xpos \in PosArgs, ypos \in PosArgs :
         Commit(mousepad_pos(Begin, xpos, ypos), Op("pos", <<xpos, ypos>>))

\* the canvas is mapped or unmapped: the host shows or hides each object
Vis ==
    /\ Alive
    /\ \E vis \in BOOLEAN :
         /\ vis # host.visible
         /\ Commit(mousepad_vis([Begin EXCEPT !.host.visible = vis], vis),
                   Op("vis", <<vis>>))

Color ==
    /\ Alive
    /\ \E argv \in {<<>>} \cup {<<c>> : c \in ColorArgs} :
         Commit(mousepad_color(Begin, argv), Op("color", <<>>))

(***************************************************************************)
(* Names: construction, send and receive names, deferred init, save, free  *)
(***************************************************************************)
NamesTexts == TextsOver({Float(MaxArg)}, {"empty", "foo", "$2"}, {})

InitNames == InitOver(NamesTexts)

NextNames == Send \/ Receive \/ InitClock \/ Free

SpecNames == InitNames /\ [][NextNames]_vars

(***************************************************************************)
(* Save: settings, deferred init and the saved creation text               *)
(***************************************************************************)
SaveTexts ==
    {t \in TextsOver({Float(MaxArg)}, {"$2"}, {Symbol(<<35, 49, 65, 70>>)}) :
        Len(t) \in {1, 4, 6}}

InitSave == InitOver(SaveTexts)

NextSave == Send \/ Receive \/ Resize \/ Color \/ InitClock \/ Save

SpecSave == InitSave /\ [][NextSave]_vars

(***************************************************************************)
(* Properties of the names, the deferred init, save and free               *)
(***************************************************************************)
\* how often the object is bound to n, the binding of construction aside
UserBound(n) ==
    host.bound[n] - (IF n = receivename_fixed THEN 1 ELSE 0)

C6_BoundToReceivename ==
    Alive =>
        /\ \A n \in BoundNames :
              UserBound(n) = (IF n = mp.receivename /\ n # symEmpty THEN 1 ELSE 0)
        /\ ~host.unbind_err

C6_UnbindThenBind ==
    (op'.name = "receive") =>
        host'.bindlog =
            (IF mp.receivename # symEmpty
             THEN << <<"unbind", mp.receivename>> >> ELSE <<>>)
            \o (IF mp'.receivename # symEmpty
                THEN << <<"bind", mp'.receivename>> >> ELSE <<>>)

\* C6: after construction and after every "receive" message the object is
\* bound to exactly one user receive name, the expanded receivename, when
\* that is not "empty", and to none when it is "empty"; a "receive" message
\* unbinds the name bound before and then binds the new one, and pd_unbind is
\* never called for a name the object is not bound to.
C6_ReceiveBinding ==
    []C6_BoundToReceivename /\ [][C6_UnbindThenBind]_vars

C6_Witness ==
    /\ op.name = "receive"
    /\ host.bindlog = << <<"unbind", "foo">>, <<"bind", "bar">> >>

\* C7: after mousepad_free the object is bound to no name, neither the fixed
\* name of construction nor a user receive name.
C7_FreeUnbindsAll ==
    host.freed => \A n \in BoundNames : host.bound[n] = 0

C7_Witness ==
    /\ op.name = "free"
    /\ host.freed
    /\ named.receive # <<>>
    /\ mp.receivename = "bar"

\* C8: when the creation text holds a send name and possibly a receive name
\* and no "send" or "receive" message came before the init clock fired, the
\* unexpanded names after the callback are the names of the creation text.
C8_InitRecoversNames ==
    (op.name = "init" /\ Alive /\ named = NoneNamed /\ Len(host.binbuf) >= 4) =>
        /\ mp.sendname_unexpanded = host.binbuf[4].v
        /\ (Len(host.binbuf) >= 5 =>
                mp.receivename_unexpanded = host.binbuf[5].v)

\* the object made from the text that save writes, after its init callback
Reload(w) ==
    mousepad_init_unexpanded(mousepad_new(<<Symbol("mousepad")>> \o mousepad_save(w)))

\* C9: once the init callback has run, the object made from the saved
\* arguments saves, after its own init callback, the same width, height, send
\* name, receive name and colour.
C9_SaveRoundTrip ==
    (Alive /\ ~host.clock) => mousepad_save(Reload(World)) = mousepad_save(World)

C9_Witness ==
    /\ op.name = "save"
    /\ ~host.clock
    /\ host.saved = <<Float(1), Float(MaxArg), Symbol("$2"), Symbol("foo"),
                      Symbol(<<35, 49, 65, 50, 66, 51, 67>>)>>

\* the name a "send" or "receive" message carrying n sets
SetByMessage(n) == IF n = s_ THEN symEmpty ELSE n

\* C10: a name that a "send" or "receive" message set before the init clock
\* fired is, after the callback, the name that message set.
C10_InitSkipsSetNames ==
    (op.name = "init" /\ Alive) =>
        /\ (named.send # <<>> =>
                mp.sendname_unexpanded = SetByMessage(named.send[1]))
        /\ (named.receive # <<>> =>
                mp.receivename_unexpanded = SetByMessage(named.receive[1]))

(***************************************************************************)
(* Events: mouse callbacks, zoom, send names and their listeners           *)
(***************************************************************************)
EventTexts ==
    {<<Symbol("mousepad"), Float(MaxArg), Float(MaxArg), Symbol("foo"), Symbol("$2")>>}

InitEvents == InitOver(EventTexts)

NextEvents == Click \/ Motion \/ Zoom \/ Send \/ Listen

SpecEvents == InitEvents /\ [][NextEvents]_vars

EventSelectors == {symButton, symDrag, symDeltas, symHover}

\* the send name is not "empty" and something listens to it
SendnameHeard ==
    (mp.sendname # symEmpty) /\ s_thing(World, mp.sendname)

\* C1: every button, drag, deltas and hover message of a click or motion
\* callback goes to the outlet; its copy goes to the send name exactly when
\* the expanded send name is not "empty" and has a listener, with the same
\* selector and arguments, right after the outlet copy.
C1_OutletThenSendname ==
    (op.name \in {"click", "motion"}) =>
        /\ (op.name = "click" =>
                \E i \in DOMAIN log :
                    log[i].chan = "outlet" /\ log[i].sel \in {symDrag, symHover})
        /\ \A i \in DOMAIN log :
              (log[i].sel \in EventSelectors) =>
                 /\ (log[i].chan = "outlet" =>
                        (SendnameHeard <=>
                            (/\ i < Len(log)
                             /\ log[i + 1] = [log[i] EXCEPT !.chan = "send",
                                                            !.name = mp.sendname])))
                 /\ (log[i].chan = "send" =>
                        /\ i > 1
                        /\ log[i - 1] = [log[i] EXCEPT !.chan = "outlet",
                                                       !.name = ""])

C1_Witness ==
    /\ op.name = "click"
    /\ Len(log) = 4
    /\ log[1].chan = "outlet" /\ log[1].sel = symButton
    /\ log[2].chan = "send" /\ log[2].sel = symButton /\ log[2].name = "bar"
    /\ log[4].chan = "send" /\ log[4].sel = symDrag

\* C2: every click callback with buttonstate 1 sends a "button" message whose
\* first argument is 1.
C2_ButtonDownOnEveryClick ==
    (op.name = "click" /\ op.args[5] = 1) =>
        \E i \in DOMAIN log :
            /\ log[i].chan = "outlet"
            /\ log[i].sel = symButton
            /\ log[i].argv[1] = Float(1)

\* C3: no "button" message whose first argument is 0 is ever sent.
C3_NoButtonUp ==
    \A i \in DOMAIN log :
        (log[i].sel = symButton) => (log[i].argv[1] # Float(0))

(***************************************************************************)
(* Colour codec on its own: an integer is written as a colour symbol and   *)
(* read back, or a shorthand colour symbol is read                         *)
(***************************************************************************)
CodecNibbles == {0, 1, 9, 10, 15}

CodecColors ==
    {n[1] * 1048576 + n[2] * 65536 + n[3] * 4096 + n[4] * 256 + n[5] * 16 + n[6] :
        n \in [1..6 -> CodecNibbles]}

\* 0..9, A..F, a..f
HexChars == (48..57) \cup (65..70) \cup (97..102)

Shorthands == {<<35, a, b, c>> : a \in HexChars, b \in HexChars, c \in HexChars}

InitCodec ==
    /\ \/ cPc = "int" /\ cIn \in CodecColors /\ cHex = <<>>
       \/ cPc = "str" /\ cIn = -1 /\ cHex \in Shorthands
    /\ cInt = -1
    /\ LET w == mousepad_new(<<Symbol("mousepad")>>)
       IN  mp = w.mp /\ host = w.host /\ log = w.log
    /\ op = Op("new", <<>>)
    /\ named = NoneNamed

Encode ==
    /\ cPc = "int"
    /\ cHex' = int2hexcolor(cIn)
    /\ cPc' = "hex"
    /\ UNCHANGED <<mp, host, log, op, named, cIn, cInt>>

Decode ==
    /\ cPc \in {"hex", "str"}
    /\ cInt' = hexcolor2int(cHex)
    /\ cPc' = IF cPc = "hex" THEN "round" ELSE "parsed"
    /\ UNCHANGED <<mp, host, log, op, named, cIn, cHex>>

NextCodec == Encode \/ Decode

SpecCodec == InitCodec /\ [][NextCodec]_vars

\* the character of a hexadecimal digit, in upper case
HexDigit(n) == <<48, 49, 50, 51, 52, 53, 54, 55, 56, 57, 65, 66, 67, 68, 69, 70>>[n + 1]

\* the value of a hexadecimal digit in either case
HexValue(ch) ==
    IF ch <= 57 THEN ch - 48 ELSE IF ch <= 70 THEN ch - 55 ELSE ch - 87

\* nibble k of c, nibble 0 the least significant
NibbleOf(c, k) == (c \div (16 ^ k)) % 16

\* C4: int2hexcolor(c) is "#" and the six upper case hexadecimal digits of c,
\* the most significant first, and hexcolor2int reads it back as c.
C4_CodecRoundTrip ==
    /\ (cPc \in {"hex", "round"}) =>
           cHex = <<35>> \o [k \in 1..6 |-> HexDigit(NibbleOf(cIn, 6 - k))]
    /\ (cPc = "round") => (cInt = cIn)

C4_Witness ==
    /\ cPc = "round"
    /\ cIn = 11505680
    /\ cHex = <<35, 65, 70, 57, 48, 49, 48>>
    /\ cInt = 11505680

\* C5: hexcolor2int of "#abc" is the integer with the nibbles a, a, b, b, c, c,
\* which is hexcolor2int of "#aabbcc".
C5_ShorthandDoubled ==
    (cPc = "parsed" /\ Len(cHex) = 4) =>
        LET a == cHex[2]
            b == cHex[3]
            c == cHex[4]
        IN  /\ cInt = HexValue(a) * 1114112 + HexValue(b) * 4352 + HexValue(c) * 17
            /\ cInt = hexcolor2int(<<35, a, a, b, b, c, c>>)

C5_Witness ==
    /\ cPc = "parsed"
    /\ cHex = <<35, 49, 97, 70>>
    /\ cInt = 1157887

(***************************************************************************)
(* The init clock and mousepad_free                                        *)
(***************************************************************************)
\* C11: the init callback never runs on an object that was freed: the clock
\* fires before mousepad_free or mousepad_free cancels it.
C11_NoInitAfterFree ==
    ~host.stale_call

(***************************************************************************)
(* Properties of the mouse callbacks                                       *)
(***************************************************************************)
\* the positions in the log of the step's handler of a message to the outlet
OutletAt(l, sel) ==
    {i \in DOMAIN l : l[i].chan = "outlet" /\ l[i].sel = sel}

C12_ButtonStep ==
    LET emitted == OutletAt(log', symButton)
    IN  /\ (op'.name = "click" =>
               /\ (emitted # {}) <=> (op'.args[5] # mp.buttonstate)
               /\ mp'.buttonstate = op'.args[5])
        /\ (emitted # {} =>
               /\ op'.name = "click"
               /\ Cardinality(emitted) = 1
               /\ \A i \in emitted : log'[i].argv[1] = Float(mp'.buttonstate))
        /\ (mp'.buttonstate # mp.buttonstate <=> emitted # {})
        /\ mp'.buttonstate \in {0, 1}

InitPointer == InitOver(EventTexts)

NextPointer == Click \/ Motion \/ Zoom \/ PosMsg

SpecPointer == InitPointer /\ [][NextPointer]_vars

\* C13: a click callback sets xval = xpix - xpos and yval = ypix - ypos and
\* sends exactly one position message, with (xval / zoomfactor,
\* yval / zoomfactor): "drag", with a grab of the motion, when buttonstate is
\* not 0, "hover" without a grab when it is 0, after any "button" message.
C13_ClickPosition ==
    (op.name = "click") =>
        LET sel   == IF op.args[5] # 0 THEN symDrag ELSE symHover
            other == IF op.args[5] # 0 THEN symHover ELSE symDrag
        IN  /\ mp.xval = op.args[1] - mp.te_xpix
            /\ mp.yval = op.args[2] - mp.te_ypix
            /\ Cardinality(OutletAt(log, sel)) = 1
            /\ OutletAt(log, other) = {}
            /\ OutletAt(log, symDeltas) = {}
            /\ \A i \in OutletAt(log, sel) :
                  /\ log[i].argv = <<Float(mp.xval \div mp.zoomfactor),
                                     Float(mp.yval \div mp.zoomfactor)>>
                  /\ \A j \in OutletAt(log, symButton) : j < i
            /\ host.grab = (op.args[5] # 0)

C13_Witness ==
    /\ op.name = "click"
    /\ op.args[5] = 1
    /\ mp.zoomfactor = 2
    /\ mp.te_xpix = 2
    /\ mp.xval = 1
    /\ OutletAt(log, symButton) = {1}
    /\ OutletAt(log, symDrag) = {2}
    /\ host.grab


\* the message of the given selector that the handler of a log sent to the outlet
OutletMsg(l, sel) == l[CHOOSE i \in OutletAt(l, sel) : TRUE]

C14_DeltasStep ==
    (/\ OutletAt(log, symDrag) # {}
     /\ op'.name = "motion"
     /\ OutletAt(log', symDeltas) # {}) =>
        LET before == OutletMsg(log, symDrag).argv
            now    == OutletMsg(log', symDrag).argv
            deltas == OutletMsg(log', symDeltas).argv
        IN  /\ deltas[1].v = now[1].v - before[1].v
            /\ deltas[2].v = now[2].v - before[2].v

\* C14: at zoom 1 and 2, the values of the "deltas" message of a motion
\* callback during a drag are the differences between the coordinates of its
\* "drag" message and those of the "drag" message sent before.
C14_DeltasMatchDrag ==
    [][C14_DeltasStep]_vars

C15_MotionStep ==
    (op'.name = "motion") =>
        LET h1 == op'.args[1]
            h2 == op'.args[2]
            deltax == IF h1 >= 0 THEN h1 \div 2 ELSE -((-h1) \div 2)
            deltay == IF h2 >= 0 THEN h2 \div 2 ELSE -((-h2) \div 2)
        IN  IF deltax = 0 /\ deltay = 0
            THEN log' = <<>> /\ mp' = mp
            ELSE /\ mp'.xval = mp.xval + deltax
                 /\ mp'.yval = mp.yval + deltay
                 /\ [f \in DOMAIN mp \ {"xval", "yval", "out"} |-> mp'[f]]
                        = [f \in DOMAIN mp \ {"xval", "yval", "out"} |-> mp[f]]
                 /\ [i \in DOMAIN log' |-> log'[i].sel]
                        \in {<<symDrag, symDeltas>>,
                             <<symDrag, symDrag, symDeltas, symDeltas>>}
                 /\ OutletAt(log', symDrag) = {1}
                 /\ \A i \in OutletAt(log', symDeltas) : i > 1

\* C15: a motion callback whose deltas both truncate to 0 sends nothing and
\* changes no field of the object; any other adds the integer deltas to xval
\* and yval and sends "drag" and then "deltas".
C15_MotionFrame ==
    [][C15_MotionStep]_vars

C15_Witness ==
    /\ op.name = "motion"
    /\ op.args = <<-1, 0>>
    /\ log = <<>>
    /\ mp.buttonstate = 1

C15_WitnessMoved ==
    /\ op.name = "motion"
    /\ op.args = <<-1, 3>>
    /\ OutletAt(log, symDrag) = {1}
    /\ OutletAt(log, symDeltas) = {2}

(***************************************************************************)
(* Layout: size, zoom, position and the rectangles on the canvas           *)
(***************************************************************************)
LayoutTexts == TextsOver({Float(MaxArg)}, {"empty", "foo"}, {})

InitLayout == InitOver(LayoutTexts)

NextLayout == Vis \/ Resize \/ Zoom \/ PosMsg

SpecLayout == InitLayout /\ [][NextLayout]_vars

\* C16: after construction and after any "size" and zoom messages, width and
\* height are at least 1 and pixw, pixh are width, height times the zoom
\* factor.
C16_SizeInvariant ==
    /\ mp.width >= 1
    /\ mp.height >= 1
    /\ mp.pixw = mp.width * mp.zoomfactor
    /\ mp.pixh = mp.height * mp.zoomfactor

C16_Witness ==
    /\ op.name = "size"
    /\ mp.zoomfactor = 2
    /\ mp.width = 1
    /\ mp.height = DEFSIZE
    /\ mp.pixw = 2

(***************************************************************************)
(* Draw: visibility, names and the rectangles on the canvas                *)
(***************************************************************************)
DrawTexts == TextsOver({Float(MaxArg)}, {"empty", "foo", "$1"}, {})

InitDraw == InitOver(DrawTexts)

NextDraw == Vis \/ Send \/ Receive

SpecDraw == InitDraw /\ [][NextDraw]_vars

HasRect(part) ==
    \E k \in DOMAIN host.canvas : host.canvas[k].tag = part

\* C17: while the canvas is visible the base rectangle exists, the inlet
\* rectangle exists exactly when the expanded send name is "empty" and the
\* outlet rectangle exactly when the expanded receive name is "empty"; while
\* it is not visible none of the three rectangles exists.
C17_DrawnRects ==
    IF host.visible
    THEN /\ HasRect(BASE)
         /\ HasRect(INLET) <=> (mp.sendname = symEmpty)
         /\ HasRect(OUTLET) <=> (mp.receivename = symEmpty)
    ELSE host.canvas = <<>>

\* the handler that ran last has drawn the object with mousepad_draw
Drawn ==
    \/ op.name = "vis" /\ op.args[1]
    \/ op.name \in {"size", "pos"} /\ host.visible

\* C18: the base rectangle drawn by mousepad_draw is (x, y, x + pixw,
\* y + pixh) and is the rectangle mousepad_getrect reports; the inlet is
\* (x, y, x + IOWIDTH*zoom, y + IOHEIGHT*zoom) and the outlet is
\* (x, y + pixh - IOHEIGHT*zoom, x + IOWIDTH*zoom, y + pixh).
C18_RectLayout ==
    Drawn =>
      LET x    == mp.te_xpix
          y    == mp.te_ypix
          zoom == mp.zoomfactor
      IN  /\ HasRect(BASE)
          /\ \A k \in DOMAIN host.canvas :
               LET item == host.canvas[k]
               IN  /\ item.tag = BASE =>
                        /\ item.pix = <<x, y, x + mp.pixw, y + mp.pixh>>
                        /\ item.pix = mousepad_getrect(World)
                   /\ item.tag = INLET =>
                        item.pix = <<x, y, x + IOWIDTH * zoom, y + IOHEIGHT * zoom>>
                   /\ item.tag = OUTLET =>
                        item.pix = <<x, y + mp.pixh - IOHEIGHT * zoom,
                                     x + IOWIDTH * zoom, y + mp.pixh>>

C18_Witness ==
    /\ op = Op("pos", <<1, 1>>)
    /\ host.visible
    /\ mp.zoomfactor = 2
    /\ mp.width = 1 /\ mp.height = 1
    /\ \E k \in DOMAIN host.canvas :
         host.canvas[k].tag = BASE /\ host.canvas[k].pix = <<2, 2, 4, 4>>
    /\ \E k \in DOMAIN host.canvas :
         host.canvas[k].tag = INLET /\ host.canvas[k].pix = <<2, 2, 16, 8>>
    /\ \E k \in DOMAIN host.canvas :
         host.canvas[k].tag = OUTLET /\ host.canvas[k].pix = <<2, -2, 16, 4>>

(***************************************************************************)
(* Dialog: the fixed channel of the properties dialog                      *)
(***************************************************************************)
DialogTexts ==
    {<<Symbol("mousepad"), Float(MaxArg), Float(MaxArg), Symbol("$2"), Symbol("foo")>>}

InitDialog == InitOver(DialogTexts)

NextDialog == Get \/ Zoom \/ Click \/ Motion \/ ListenDialog

SpecDialog == InitDialog /\ [][NextDialog]_vars

FixedAt(l) ==
    {i \in DOMAIN l : l[i].chan = "send" /\ l[i].name = sendname_fixed}

\* the handler sent one message sel to the outlet and, when the fixed name
\* has a listener, one copy of it to the fixed name
RepliedOnFixed(sel) ==
    /\ Cardinality(OutletAt(log, sel)) = 1
    /\ \A i \in DOMAIN log : log[i].sel = sel
    /\ IF sendname_fixed \in host.others
       THEN /\ Cardinality(FixedAt(log)) = 1
            /\ \A j \in FixedAt(log) :
                 /\ log[j].sel = sel
                 /\ log[j].argv = OutletMsg(log, sel).argv
       ELSE FixedAt(log) = {}

====
